---- MODULE Spec2Model ----
(***************************************************************************)
(* MapMyShots: the Map tab of App.tsx (image upload / add / navigation),   *)
(* the GPX helpers of utils/gpx.ts and lib/gpx.ts, the GPX Viewer and      *)
(* Metadata tabs of App.tsx, the total distance, and the Map component     *)
(* with marker sampling of components/ImageViewer.tsx.                     *)
(*                                                                         *)
(* Conventions.                                                            *)
(*  - An optional JavaScript value is a sequence: << >> is undefined,      *)
(*    <<v>> is the value v.                                                *)
(*  - A coordinate is a decimal number with one fractional digit, held as  *)
(*    the integer number of tenths of a degree (12 is 1.2, -5 is -0.5).    *)
(*  - A Date is a small natural number.                                    *)
(*  - State that is null or an object (metadata, bounds) is held the same  *)
(*    way: << >> is null, <<v>> is the object v.                           *)
(*  - A distance in km is a double; it is kept as the formal sum of the    *)
(*    haversine terms added to 0, in the order they are added.             *)
(*  - React 19 batches the setState calls of one synchronous run of a      *)
(*    handler, so the code between two awaits is one atomic action, and a  *)
(*    UI event runs the handler of the committed render.                   *)
(***************************************************************************)
EXTENDS Integers, Sequences, FiniteSets, Bags, TLC

\* ---------------------------------------------------------------- bounds
MaxBatch == 2        \* files selected in one file dialog
MaxCalls == 2        \* file dialogs confirmed in one session

\* ------------------------------------------------------ optional values
Undefined == << >>
Some(v) == <<v>>

\* JavaScript truthiness of an optional number: undefined and 0 are falsy.
TruthyNum(o) == o # Undefined /\ o[1] # 0

\* JavaScript truthiness of an optional string: undefined and "" are falsy.
TruthyStr(o) == o # Undefined /\ o[1] # ""

\* a || b on optional Dates: a Date is truthy, undefined is not.
OrElse(a, b) == IF a # Undefined THEN a ELSE b

\* ------------------------------------------------------- the file inputs
\* What exifr.parse(file, true) resolves to for a file: undefined (no EXIF)
\* or a metadata object.  Whether a parse rejects instead is decided at the
\* parse (the file may be unreadable or changed by then).
Meta(lat, lon, dto, cd, mk, md) ==
  [latitude |-> lat, longitude |-> lon, DateTimeOriginal |-> dto,
   CreateDate |-> cd, Make |-> mk, Model |-> md]

File(n, m) == [name |-> n, meta |-> m]

FileA == File("a.jpg",
              Some(Meta(Some(12), Some(-34), Some(1), Undefined, Some("Canon"), Some("EOS"))))
FileB == File("b.jpg",
              Some(Meta(Some(7), Some(8), Undefined, Some(2), Undefined, Some("Pixel"))))
FileC == File("c.jpg",
              Some(Meta(Some(-5), Some(105), Undefined, Undefined, Undefined, Undefined)))
\* taken on the equator: latitude is the number 0
FileZ == File("z.jpg",
              Some(Meta(Some(0), Some(15), Some(3), Undefined, Undefined, Undefined)))
\* the files the user can pick in the Map tab
Files == {FileA, FileB, FileC, FileZ}

RECURSIVE SeqsUpTo(_, _)
SeqsUpTo(S, n) ==
  IF n = 0 THEN {<< >>}
  ELSE LET T == SeqsUpTo(S, n - 1)
       IN  T \cup {Append(t, s) : t \in {u \in T : Len(u) = n - 1}, s \in S}

\* The place of a file in the dialog's listing by name.
Listing == <<"a.jpg", "b.jpg", "c.jpg", "z.jpg">>

Place(f) == CHOOSE k \in 1..Len(Listing) : Listing[k] = f.name

\* A file dialog lists each file of a directory once and hands the selected
\* files over in the order of its listing.
InListingOrder(fs) ==
  \A i, j \in 1..Len(fs) : i < j => Place(fs[i]) < Place(fs[j])

\* event.target.files of a change event: a FileList.
Batches == {fs \in SeqsUpTo(Files, MaxBatch) : InListingOrder(fs)}

\* ------------------------------------------------------ error messages
ErrNoGps == "No GPS data found in the uploaded images. Please ensure your images contain GPS information."
ErrNoNew == "No new images added. All images already exist or contain no GPS data."
ErrProcessing == "Error processing images. Please try again."
Null == "null"

\* ------------------------------------------------------- pure helpers
\* The test of App.tsx lines 64 and 112:
\*   metadata?.latitude && metadata?.longitude
Keep(m) ==
  /\ m # Undefined
  /\ TruthyNum(m[1].latitude)
  /\ TruthyNum(m[1].longitude)

\* The ImageMetadata object pushed for a kept file (lines 65-78, 113-126).
ToImage(f) ==
  LET m == f.meta[1]
  IN  [latitude  |-> m.latitude[1],
       longitude |-> m.longitude[1],
       timestamp |-> OrElse(m.DateTimeOriginal, m.CreateDate),
       make      |-> m.Make,
       model     |-> m.Model,
       fileName  |-> f.name]

\* newImages after the loop body has run for file f.
Push(newImages, f) ==
  IF Keep(f.meta) THEN Append(newImages, ToImage(f)) ELSE newImages

FileNames(imgs) == {imgs[i].fileName : i \in 1..Len(imgs)}

FilterNew_NoFilter(existing, newImages) == newImages

\* existingFilenames / filteredNewImages of handleAddImages (lines 131-136).
FilterNew(existing, newImages) ==
  LET existingFilenames == FileNames(existing)
      NotThere(newImg) == newImg.fileName \notin existingFilenames
  IN  SelectSeq(newImages, NotThere)

\* The React state the handlers write, as one record.
St(imgs, sel, err) ==
  [images |-> imgs, selectedImageIndex |-> sel, error |-> err]

AfterUpload_Append(s, newImages) ==
  IF Len(newImages) = 0
  THEN St(s.images, s.selectedImageIndex, ErrNoGps)
  ELSE St(s.images \o newImages, 0, s.error)

AfterUpload_ClearOnEmpty(s, newImages) ==
  IF Len(newImages) = 0
  THEN St(<< >>, 0, ErrNoGps)
  ELSE St(newImages, 0, s.error)

\* handleImageUpload after its loop (lines 82-89).
AfterUpload(s, newImages) ==
  IF Len(newImages) = 0
  THEN St(s.images, s.selectedImageIndex, ErrNoGps)
  ELSE St(newImages, 0, s.error)

AfterAdd_PastEnd(s, captured, newImages) ==
  LET filteredNewImages == FilterNew(captured, newImages)
  IN  IF Len(filteredNewImages) = 0
      THEN St(s.images, s.selectedImageIndex, ErrNoNew)
      ELSE St(captured \o filteredNewImages,
              Len(captured \o filteredNewImages), s.error)

AfterAdd_LastNew(s, captured, newImages) ==
  LET filteredNewImages == FilterNew(captured, newImages)
  IN  IF Len(filteredNewImages) = 0
      THEN St(s.images, s.selectedImageIndex, ErrNoNew)
      ELSE St(captured \o filteredNewImages,
              Len(captured \o filteredNewImages) - 1, s.error)

\* handleAddImages after its loop (lines 130-145).  captured is the images
\* array of the render whose handler is running: the closure's `images`.
AfterAdd(s, captured, newImages) ==
  LET filteredNewImages == FilterNew(captured, newImages)
  IN  IF Len(filteredNewImages) = 0
      THEN St(s.images, s.selectedImageIndex, ErrNoNew)
      ELSE St(captured \o filteredNewImages, Len(captured), s.error)

AfterThrow_KeepParsed(s, newImages) ==
  IF Len(newImages) = 0
  THEN St(s.images, s.selectedImageIndex, ErrProcessing)
  ELSE St(newImages, 0, ErrProcessing)

\* The catch block of both handlers (lines 90-92, 146-148).  newImages, the
\* files of the batch parsed before the throw, is in scope and is dropped.
AfterThrow(s, newImages) == St(s.images, s.selectedImageIndex, ErrProcessing)

Min_Second(a, b) == b

Min(a, b) == IF a <= b THEN a ELSE b

Max(a, b) == IF a >= b THEN a ELSE b

\* --------------------------------------------------- numbers and text
\* A text is a sequence of tokens; the text of a number is one token per
\* character.
Digits == <<"0", "1", "2", "3", "4", "5", "6", "7", "8", "9">>

DigitVal(c) == (CHOOSE d \in 1..10 : Digits[d] = c) - 1

IsDigit(c) == \E d \in 1..10 : Digits[d] = c

\* Number::toString of a non-negative integer.
RECURSIVE IntToString(_)
IntToString(n) ==
  IF n < 10 THEN <<Digits[n + 1]>>
  ELSE Append(IntToString(n \div 10), Digits[(n % 10) + 1])

Abs(n) == IF n < 0 THEN -n ELSE n

\* Number::toString of a number given in tenths: an optional "-", the
\* integer part, and "." with the fractional digit when it is not 0.
NumberToString(t) ==
  (IF t < 0 THEN <<"-">> ELSE << >>)
    \o IntToString(Abs(t) \div 10)
    \o (IF Abs(t) % 10 = 0 THEN << >> ELSE <<".", Digits[(Abs(t) % 10) + 1]>>)

\* parseFloat's result on a text that does not start with a number
NaN == 999999

\* The value of the digits s[from..], read left to right, until a non-digit.
RECURSIVE ReadInt(_, _, _)
ReadInt(s, from, acc) ==
  IF from <= Len(s) /\ IsDigit(s[from])
  THEN ReadInt(s, from + 1, acc * 10 + DigitVal(s[from]))
  ELSE [value |-> acc, next |-> from]

\* parseFloat: an optional sign, digits, an optional "." and digits; NaN
\* when no digit is read.  The result is in tenths, so of the fractional
\* digits the first one counts.
parseFloat(s) ==
  LET signed == Len(s) >= 1 /\ s[1] \in {"-", "+"}
      start == IF signed THEN 2 ELSE 1
      int == ReadInt(s, start, 0)
      hasInt == int.next > start
      dot == int.next <= Len(s) /\ s[int.next] = "."
      hasFrac == dot /\ int.next + 1 <= Len(s) /\ IsDigit(s[int.next + 1])
      frac == IF hasFrac THEN DigitVal(s[int.next + 1]) ELSE 0
      mag == int.value * 10 + frac
  IN  IF ~hasInt /\ ~hasFrac THEN NaN
      ELSE IF signed /\ s[1] = "-" THEN -mag ELSE mag

\* ------------------------------------------------ gpx-builder, DOMParser
\* new Point(lat, lon, options) of gpx-builder: the fields a Point has, and
\* `comment`, the property utils/gpx.ts adds to the object.
Point(lat, lon, options) ==
  [lat |-> lat, lon |-> lon, time |-> options.time, cmt |-> options.cmt,
   comment |-> Undefined]

NoOptions == [time |-> Undefined, cmt |-> Undefined]

\* [make, model].filter(Boolean).join(' ')
JoinTruthy(make, model) ==
  LET a == IF TruthyStr(make) THEN <<make[1]>> ELSE << >>
      b == IF TruthyStr(model) THEN <<model[1]>> ELSE << >>
  IN  IF a # << >> /\ b # << >> THEN a \o <<" ">> \o b ELSE a \o b

\* The trkpt element buildGPX writes for a Point: the attributes lat and
\* lon as texts, and the child elements of the fields time and cmt that are
\* set.  A property that is not a field of Point is not written.
TrkPt(p) ==
  [lat |-> NumberToString(p.lat), lon |-> NumberToString(p.lon),
   time |-> p.time, cmt |-> p.cmt]

\* buildGPX(gpxBuilder.toObject()): the document, as its metadata element
\* and its trkpt elements in document order.
buildGPX(metadata, points) ==
  [metadata |-> metadata,
   trkpt |-> [i \in 1..Len(points) |-> TrkPt(points[i])]]

\* `Route generated from ${images.length} photos`
Desc(n) == <<"Route generated from ">> \o IntToString(n) \o <<" photos">>

Metadata(n) == [name |-> "Photo Route", desc |-> Desc(n)]

utilsPoint_Swapped(img) ==
  LET point == Point(img.longitude, img.latitude, NoOptions)
      timed == IF img.timestamp # Undefined
               THEN [point EXCEPT !.time = img.timestamp] ELSE point
  IN  IF TruthyStr(img.make) \/ TruthyStr(img.model)
      THEN [timed EXCEPT !.comment = Some(JoinTruthy(img.make, img.model))]
      ELSE timed

\* The map callback of generateGPX in utils/gpx.ts (lines 6-16).
utilsPoint(img) ==
  LET point == Point(img.latitude, img.longitude, NoOptions)
      timed == IF img.timestamp # Undefined
               THEN [point EXCEPT !.time = img.timestamp] ELSE point
  IN  IF TruthyStr(img.make) \/ TruthyStr(img.model)
      THEN [timed EXCEPT !.comment = Some(JoinTruthy(img.make, img.model))]
      ELSE timed

\* generateGPX of utils/gpx.ts, the one App.tsx imports.
generateGPX(imgs) ==
  buildGPX(Metadata(Len(imgs)), [i \in 1..Len(imgs) |-> utilsPoint(imgs[i])])

\* The map callback of generateGPX in lib/gpx.ts (lines 6-17).
libPoint(img) ==
  LET pointOptions ==
        [time |-> img.timestamp,
         cmt  |-> IF TruthyStr(img.make) \/ TruthyStr(img.model)
                  THEN Some(JoinTruthy(img.make, img.model)) ELSE Undefined]
  IN  Point(img.latitude, img.longitude, pointOptions)

\* generateGPX of lib/gpx.ts.
libGenerateGPX(imgs) ==
  buildGPX(Metadata(Len(imgs)), [i \in 1..Len(imgs) |-> libPoint(imgs[i])])

\* point.getAttribute(name) || '0'
AttrOrZero(a) == IF a = << >> THEN <<"0">> ELSE a

\* parseGPX of utils/gpx.ts (lines 32-47).
parseGPX(gpxString) ==
  LET trackPoints == gpxString.trkpt
  IN  [i \in 1..Len(trackPoints) |->
         <<parseFloat(AttrOrZero(trackPoints[i].lat)),
           parseFloat(AttrOrZero(trackPoints[i].lon))>>]

\* ------------------------------------------------------------- state
VARIABLES
  images,              \* useState<ImageMetadata[]>([])
  selectedImageIndex,  \* useState(0), 0-based
  loading,             \* useState(false)
  error,               \* useState<string | null>(null)
  calls,               \* bag of the handler invocations suspended at an await
  started,             \* number of handler invocations so far
  last,                \* the step just taken, with the state it started from
  gpxImages,           \* the images argument of generateGPX
  gpxString,           \* what generateGPX of utils/gpx.ts returned, if called
  libString,           \* what generateGPX of lib/gpx.ts returned, if called
  coordinates,         \* what parseGPX returned, if called
  gpxFile,             \* useState<File | null>(null), by its name
  gpxPoints,           \* useState<GPXPoint[]>([])
  gpxLoading,          \* useState(false)
  gpxError,            \* useState<string | null>(null)
  metadataImage,       \* useState<File | null>(null), by its name
  metadata,            \* useState<any>(null)
  metadataLoading,     \* useState(false)
  metadataError,       \* useState<string | null>(null)
  zoomLevel,           \* useState(13) of Map
  bounds               \* useState(null) of Map

appVars == <<images, selectedImageIndex, loading, error, calls, started, last>>
gpxVars == <<gpxImages, gpxString, libString, coordinates>>
gpxTabVars == <<gpxFile, gpxPoints, gpxLoading, gpxError>>
metadataTabVars == <<metadataImage, metadata, metadataLoading, metadataError>>
mapVars == <<zoomLevel, bounds>>
otherVars == <<gpxVars, gpxTabVars, metadataTabVars, mapVars>>
vars == <<appVars, otherVars>>

\* An invocation suspended at `await exifr.parse(files[i])`: its locals, and
\* for handleAddImages the `images` its closure holds.
Call(k, fs, n, ni, imgs) ==
  [kind |-> k, files |-> fs, i |-> n, newImages |-> ni, images |-> imgs]

Suspend(c) == calls (+) SetToBag({c})
Wake(c) == calls (-) SetToBag({c})

Step(o, out, fs, kept, filt, capt) ==
  [op |-> o, outcome |-> out, files |-> fs, kept |-> kept,
   filtered |-> filt, captured |-> capt,
   prevImages |-> images, prevSel |-> selectedImageIndex]

Await == Step("await", "", << >>, << >>, << >>, << >>)

Cur == St(images, selectedImageIndex, error)

Commit(s) ==
  /\ images' = s.images
  /\ selectedImageIndex' = s.selectedImageIndex
  /\ error' = s.error

\* The state of App after its first render.
InitApp ==
  /\ images = << >>
  /\ selectedImageIndex = 0
  /\ loading = FALSE
  /\ error = Null
  /\ calls = EmptyBag
  /\ started = 0
  /\ last = [op |-> "init", outcome |-> "", files |-> << >>, kept |-> << >>,
             filtered |-> << >>, captured |-> << >>,
             prevImages |-> << >>, prevSel |-> 0]

\* No GPX function has been called.
IdleGpx ==
  /\ gpxImages = << >>
  /\ gpxString = Undefined
  /\ libString = Undefined
  /\ coordinates = Undefined

\* The GPX Viewer tab before any upload (App.tsx lines 189-193).
IdleGpxTab ==
  /\ gpxFile = Null
  /\ gpxPoints = << >>
  /\ gpxLoading = FALSE
  /\ gpxError = Null

\* The Metadata tab before any upload (App.tsx lines 261-265).
IdleMetadataTab ==
  /\ metadataImage = Null
  /\ metadata = Undefined
  /\ metadataLoading = FALSE
  /\ metadataError = Null

\* The Map component before any zoomend or moveend (lines 767-768).
IdleMap ==
  /\ zoomLevel = 13
  /\ bounds = Undefined

Idle == IdleGpxTab /\ IdleMetadataTab /\ IdleMap

Init == InitApp /\ IdleGpx /\ Idle

\* handleImageUpload up to its first await (lines 51-63).  With an empty
\* FileList the loop body never runs and the handler finishes at once.
handleImageUpload(fs) ==
  /\ started < MaxCalls
  /\ started' = started + 1
  /\ UNCHANGED otherVars
  /\ IF fs = << >>
     THEN /\ Commit(AfterUpload(St(images, selectedImageIndex, Null), << >>))
          /\ loading' = FALSE
          /\ last' = Step("upload", "empty", fs, << >>, << >>, << >>)
          /\ UNCHANGED calls
     ELSE /\ loading' = TRUE
          /\ error' = Null
          /\ calls' = Suspend(Call("upload", fs, 1, << >>, << >>))
          /\ last' = Await
          /\ UNCHANGED <<images, selectedImageIndex>>

\* handleImageUpload from the settling of one await to the next await or to
\* the end of the handler (lines 63-95); rejected: exifr.parse threw.
handleImageUploadResume(c, rejected) ==
  LET f == c.files[c.i]
      newImages == Push(c.newImages, f)
  IN  /\ c.kind = "upload"
      /\ UNCHANGED <<started, otherVars>>
      /\ IF rejected
         THEN /\ Commit(AfterThrow(Cur, c.newImages))
              /\ loading' = FALSE
              /\ calls' = Wake(c)
              /\ last' = Step("upload", "throw", c.files, c.newImages, << >>, << >>)
         ELSE IF c.i < Len(c.files)
         THEN /\ calls' = Wake(c) (+) SetToBag({Call("upload", c.files, c.i + 1, newImages, << >>)})
              /\ last' = Await
              /\ UNCHANGED <<images, selectedImageIndex, loading, error>>
         ELSE /\ Commit(AfterUpload(Cur, newImages))
              /\ loading' = FALSE
              /\ calls' = Wake(c)
              /\ last' = Step("upload", IF Len(newImages) = 0 THEN "empty" ELSE "ok",
                              c.files, newImages, << >>, << >>)

\* handleAddImages up to its first await (lines 99-111).
handleAddImages(fs) ==
  /\ started < MaxCalls
  /\ started' = started + 1
  /\ UNCHANGED otherVars
  /\ IF fs = << >>
     THEN /\ Commit(AfterAdd(St(images, selectedImageIndex, Null), images, << >>))
          /\ loading' = FALSE
          /\ last' = Step("add", "empty", fs, << >>, << >>, images)
          /\ UNCHANGED calls
     ELSE /\ loading' = TRUE
          /\ error' = Null
          /\ calls' = Suspend(Call("add", fs, 1, << >>, images))
          /\ last' = Await
          /\ UNCHANGED <<images, selectedImageIndex>>

\* handleAddImages from the settling of one await on (lines 111-151).
handleAddImagesResume(c, rejected) ==
  LET f == c.files[c.i]
      newImages == Push(c.newImages, f)
      filtered == FilterNew(c.images, newImages)
  IN  /\ c.kind = "add"
      /\ UNCHANGED <<started, otherVars>>
      /\ IF rejected
         THEN /\ Commit(AfterThrow(Cur, c.newImages))
              /\ loading' = FALSE
              /\ calls' = Wake(c)
              /\ last' = Step("add", "throw", c.files, c.newImages, << >>, c.images)
         ELSE IF c.i < Len(c.files)
         THEN /\ calls' = Wake(c) (+) SetToBag({Call("add", c.files, c.i + 1, newImages, c.images)})
              /\ last' = Await
              /\ UNCHANGED <<images, selectedImageIndex, loading, error>>
         ELSE /\ Commit(AfterAdd(Cur, c.images, newImages))
              /\ loading' = FALSE
              /\ calls' = Wake(c)
              /\ last' = Step("add", IF Len(filtered) = 0 THEN "empty" ELSE "ok",
                              c.files, newImages, filtered, c.images)

\* The ImageViewer (and its keydown listener) and the Map are mounted only
\* while images.length > 0 (App.tsx line 455).
Mounted == Len(images) > 0

\* handleNext (lines 178-180): the Next button or the ArrowRight key.
handleNext ==
  /\ Mounted
  /\ selectedImageIndex' = Min(selectedImageIndex + 1, Len(images) - 1)
  /\ last' = Step("next", "", << >>, << >>, << >>, << >>)
  /\ UNCHANGED <<images, loading, error, calls, started, otherVars>>

\* handlePrevious (lines 182-184): the Previous button or the ArrowLeft key.
handlePrevious ==
  /\ Mounted
  /\ selectedImageIndex' = Max(selectedImageIndex - 1, 0)
  /\ last' = Step("previous", "", << >>, << >>, << >>, << >>)
  /\ UNCHANGED <<images, loading, error, calls, started, otherVars>>

\* A click on the marker of image imageIdx: onImageSelect(imageIdx), which
\* is setSelectedImageIndex (App.tsx line 504).
onImageSelect(imageIdx) ==
  /\ Mounted
  /\ selectedImageIndex' = imageIdx
  /\ last' = Step("click", "", << >>, << >>, << >>, << >>)
  /\ UNCHANGED <<images, loading, error, calls, started, otherVars>>

Next ==
  \/ \E fs \in Batches : handleImageUpload(fs)
  \/ \E c \in BagToSet(calls), rejected \in BOOLEAN : handleImageUploadResume(c, rejected)
  \/ \E fs \in Batches : handleAddImages(fs)
  \/ \E c \in BagToSet(calls), rejected \in BOOLEAN : handleAddImagesResume(c, rejected)
  \/ handleNext
  \/ handlePrevious
  \/ \E imageIdx \in 0..(Len(images) - 1) : onImageSelect(imageIdx)

Spec == Init /\ [][Next]_vars

\* ------------------------------------------------ the GPX functions
MaxImages == 2       \* length of the image list given to generateGPX

Latitudes == {0, -5, 123}
Longitudes == {7, -340}
Timestamps == {Undefined, Some(1)}
Devices == {<<Undefined, Undefined>>, <<Some("Canon"), Undefined>>,
            <<Some(""), Some("EOS")>>, <<Some("Canon"), Some("EOS")>>}

\* The ImageMetadata values generateGPX is applied to.
GpxImages ==
  {[latitude |-> la, longitude |-> lo, timestamp |-> ts,
    make |-> dev[1], model |-> dev[2], fileName |-> "a.jpg"] :
     la \in Latitudes, lo \in Longitudes, ts \in Timestamps, dev \in Devices}

InitGpx ==
  /\ InitApp
  /\ Idle
  /\ gpxImages \in SeqsUpTo(GpxImages, MaxImages)
  /\ gpxString = Undefined
  /\ libString = Undefined
  /\ coordinates = Undefined

\* const gpxData = await generateGPX(images) (App.tsx line 162).
Export ==
  /\ gpxString = Undefined
  /\ gpxString' = Some(generateGPX(gpxImages))
  /\ UNCHANGED <<appVars, gpxTabVars, metadataTabVars, mapVars, gpxImages, libString, coordinates>>

\* generateGPX of lib/gpx.ts applied to the same images.
ExportLib ==
  /\ libString = Undefined
  /\ libString' = Some(libGenerateGPX(gpxImages))
  /\ UNCHANGED <<appVars, gpxTabVars, metadataTabVars, mapVars, gpxImages, gpxString, coordinates>>

\* parseGPX applied to the exported document.
Parse ==
  /\ gpxString # Undefined
  /\ coordinates = Undefined
  /\ coordinates' = Some(parseGPX(gpxString[1]))
  /\ UNCHANGED <<appVars, gpxTabVars, metadataTabVars, mapVars, gpxImages, gpxString, libString>>

NextGpx == Export \/ ExportLib \/ Parse

SpecGpx == InitGpx /\ [][NextGpx]_vars

\* ------------------------------------------------ the total distance
\* getDistanceFromLatLonInKm (App.tsx lines 311-328).  Its value is a double
\* got from Math.sin, Math.cos, Math.sqrt and Math.atan2; it is kept as the
\* term of what the expression reads: R, the two differences it converts to
\* radians, and the two latitudes whose cosines it multiplies.
getDistanceFromLatLonInKm(lat1, lon1, lat2, lon2) ==
  [R |-> 6371, dLat |-> lat2 - lat1, dLon |-> lon2 - lon1,
   lat1 |-> lat1, lat2 |-> lat2]

\* The for loop of calculateDistance from index i (0-based) on, total being
\* the terms added to 0 so far.
RECURSIVE DistanceLoop(_, _, _)
DistanceLoop(imgs, i, total) ==
  IF i < Len(imgs) - 1
  THEN DistanceLoop(imgs, i + 1,
         Append(total, getDistanceFromLatLonInKm(
                         imgs[i + 1].latitude, imgs[i + 1].longitude,
                         imgs[i + 2].latitude, imgs[i + 2].longitude)))
  ELSE total

calculateDistance_FromSecond(imgs) == DistanceLoop(imgs, 1, << >>)

\* calculateDistance (App.tsx lines 298-309).
calculateDistance(imgs) == DistanceLoop(imgs, 0, << >>)

\* ------------------------------------------ the Map with marker sampling
calculateSampleRate_Strict(zoom) ==
  IF zoom > 18 THEN 1
  ELSE IF zoom > 17 THEN 6
  ELSE IF zoom > 16 THEN 12
  ELSE IF zoom > 15 THEN 18
  ELSE IF zoom > 14 THEN 24
  ELSE IF zoom > 13 THEN 30
  ELSE 40

\* calculateSampleRate (ImageViewer.tsx lines 789-797).
calculateSampleRate(zoom) ==
  IF zoom >= 18 THEN 1
  ELSE IF zoom >= 17 THEN 6
  ELSE IF zoom >= 16 THEN 12
  ELSE IF zoom >= 15 THEN 18
  ELSE IF zoom >= 14 THEN 24
  ELSE IF zoom >= 13 THEN 30
  ELSE 40

\* images.map((_, idx) => idx) (line 802): the 0-based indices.
waypointIndices(imgs) == [k \in 1..Len(imgs) |-> k - 1]

sampledWaypointIndices_NoSelected(imgs, selectedIndex, zoom) ==
  LET sampleRate == calculateSampleRate(zoom)
      Sampled(idx) ==
        \/ idx = 0
        \/ idx = Len(imgs) - 1
        \/ idx % sampleRate = 0
  IN  SelectSeq(waypointIndices(imgs), Sampled)

\* sampledWaypointIndices (lines 799-811).
sampledWaypointIndices(imgs, selectedIndex, zoom) ==
  LET sampleRate == calculateSampleRate(zoom)
      Sampled(idx) ==
        \/ idx = 0
        \/ idx = Len(imgs) - 1
        \/ idx % sampleRate = 0
        \/ idx = selectedIndex
  IN  SelectSeq(waypointIndices(imgs), Sampled)

\* coordinates of Map (lines 770-773), indexed from 1.
coordinatesOf(imgs) ==
  [k \in 1..Len(imgs) |-> <<imgs[k].latitude, imgs[k].longitude>>]

\* A LatLngBounds of Leaflet, by its four edges.
LatLngBounds(south, west, north, east) ==
  [south |-> south, west |-> west, north |-> north, east |-> east]

\* LatLngBounds.contains of a point: inside or on an edge.
contains(b, coord) ==
  /\ b.south <= coord[1] /\ coord[1] <= b.north
  /\ b.west <= coord[2] /\ coord[2] <= b.east

markersToRender_AllInBounds(imgs, selectedIndex, zoom, bnds) ==
  LET Rendered(imageIdx) ==
        IF imageIdx = 0 \/ imageIdx = Len(imgs) - 1 THEN TRUE
        ELSE IF bnds = Undefined THEN TRUE
        ELSE contains(bnds[1], coordinatesOf(imgs)[imageIdx + 1])
  IN  SelectSeq(sampledWaypointIndices(imgs, selectedIndex, zoom), Rendered)

\* markersToRender (lines 814-820).
markersToRender(imgs, selectedIndex, zoom, bnds) ==
  LET Rendered(imageIdx) ==
        IF imageIdx = 0 \/ imageIdx = Len(imgs) - 1 THEN TRUE
        ELSE IF imageIdx = selectedIndex THEN TRUE
        ELSE IF bnds = Undefined THEN TRUE
        ELSE contains(bnds[1], coordinatesOf(imgs)[imageIdx + 1])
  IN  SelectSeq(sampledWaypointIndices(imgs, selectedIndex, zoom), Rendered)

\* The zoom levels map.getZoom() is drawn from.
Zooms == 12..18

\* The k-th photo (0-based) of a walk to the north-east, one tenth of a
\* degree of latitude and two of longitude per photo.
RouteImage(k) ==
  [latitude  |-> 400 + k,
   longitude |-> 10 + 2 * k,
   timestamp |-> Some(k),
   make      |-> Undefined,
   model     |-> Undefined,
   fileName  |-> IntToString(k)]

Route(n) == [k \in 1..n |-> RouteImage(k - 1)]

\* Short routes, and for each sample rate a route on which an index of the
\* interior is a multiple of the rate.
RouteLengths == {1, 2, 3} \cup {calculateSampleRate(z) + 2 : z \in Zooms}

\* What map.getBounds() is drawn from: the view over the first six photos
\* of the route, and a view away from the route.
Views == {LatLngBounds(400, 10, 405, 20), LatLngBounds(-100, -100, -90, -90)}

\* The Map tab showing a route that has just been uploaded.
InitMap ==
  /\ images \in {Route(n) : n \in RouteLengths}
  /\ selectedImageIndex = 0
  /\ loading = FALSE
  /\ error = Null
  /\ calls = EmptyBag
  /\ started = 0
  /\ last = [op |-> "upload", outcome |-> "ok", files |-> << >>, kept |-> images,
             filtered |-> << >>, captured |-> << >>,
             prevImages |-> << >>, prevSel |-> 0]
  /\ IdleGpx
  /\ Idle

\* whenCreated of MapContainer (lines 827-830).
whenCreated(view) ==
  /\ bounds = Undefined
  /\ zoomLevel' = 13
  /\ bounds' = Some(view)
  /\ UNCHANGED <<appVars, gpxVars, gpxTabVars, metadataTabVars>>

\* zoomend of ZoomHandler (lines 738-741).
zoomend(zoom, view) ==
  /\ zoomLevel' = zoom
  /\ bounds' = Some(view)
  /\ UNCHANGED <<appVars, gpxVars, gpxTabVars, metadataTabVars>>

\* moveend of ZoomHandler (lines 742-744).
moveend(view) ==
  /\ bounds' = Some(view)
  /\ UNCHANGED <<appVars, gpxVars, gpxTabVars, metadataTabVars, zoomLevel>>

\* The indices whose markers are on the map.
Rendered ==
  LET markers == markersToRender(images, selectedImageIndex, zoomLevel, bounds)
  IN  {markers[k] : k \in 1..Len(markers)}

NextMap ==
  \/ \E view \in Views : whenCreated(view)
  \/ \E zoom \in Zooms, view \in Views : zoomend(zoom, view)
  \/ \E view \in Views : moveend(view)
  \/ \E imageIdx \in Rendered : onImageSelect(imageIdx)
  \/ handleNext
  \/ handlePrevious

SpecMap == InitMap /\ [][NextMap]_vars

\* ------------------------------------------- the GPX Viewer tab (upload)
\* An XML element: its tag, the text directly inside it, and its child
\* elements in document order.  A trkpt also carries its attributes lat and
\* lon as texts, << >> for an attribute that is missing or empty.
Elem(tag, text, children) == [tag |-> tag, text |-> text, children |-> children]

TrkptElem(lat, lon, children) ==
  [tag |-> "trkpt", text |-> << >>, children |-> children, lat |-> lat, lon |-> lon]

\* What DOMParser.parseFromString makes of a file's text: a document holding
\* a parsererror element when the text is not well-formed XML, the tree of
\* the text otherwise.
Document(parsererror, children) ==
  [parsererror |-> parsererror, children |-> children]

GpxFileOf(n, doc) == [name |-> n, xml |-> doc]

Track(points) == <<Elem("gpx", << >>, <<Elem("trk", << >>, <<Elem("trkseg", << >>, points)>>)>>)>>

\* two track points: one with ele, time and name children, one whose name
\* child is empty and whose lon attribute is missing
GpxTrack ==
  GpxFileOf("track.gpx", Document(FALSE, Track(<<
    TrkptElem(<<"1", ".", "2">>, <<"-", "3", ".", "4">>,
              <<Elem("ele", <<"9">>, << >>),
                Elem("time", <<"2024-01-01T00:00:00Z">>, << >>),
                Elem("name", <<"Start">>, << >>)>>),
    TrkptElem(<<"0">>, << >>, <<Elem("name", << >>, << >>)>>)>>)))

\* one track point without name or time children, whose extensions element
\* holds elements called name and time
GpxNested ==
  GpxFileOf("nested.gpx", Document(FALSE, Track(<<
    TrkptElem(<<"5">>, <<"6">>,
              <<Elem("extensions", << >>,
                     <<Elem("name", <<"hr">>, << >>),
                       Elem("time", <<"90">>, << >>)>>)>>)>>)))

\* well-formed, with a waypoint and no track point
GpxNoPoints ==
  GpxFileOf("wpt.gpx", Document(FALSE,
    <<Elem("gpx", << >>, <<Elem("wpt", << >>, <<Elem("name", <<"Hut">>, << >>)>>)>>)>>))

\* not well-formed XML
GpxBroken == GpxFileOf("broken.gpx", Document(TRUE, << >>))

\* the files the user can pick in the GPX Viewer tab
GpxFiles == {GpxTrack, GpxNested, GpxNoPoints, GpxBroken}

ErrGpxParse == "Error parsing GPX file."
ErrGpxNoPoints == "No track points found in GPX file."
ErrGpxInvalid == "Error parsing GPX file. Please ensure it is a valid GPX format."

\* The elements below a sequence of sibling elements, in document order.
RECURSIVE Preorder(_)
Preorder(es) ==
  IF es = << >> THEN << >>
  ELSE <<es[1]>> \o Preorder(es[1].children) \o Preorder(Tail(es))

\* node.getElementsByTagName(tag): the descendants of node with that tag,
\* in document order.
getElementsByTagName(node, tag) ==
  LET HasTag(e) == e.tag = tag
  IN  SelectSeq(Preorder(node.children), HasTag)

\* Node.textContent: the text of the element and of all its descendants.
RECURSIVE textContent(_)
RECURSIVE ConcatText(_)
ConcatText(es) ==
  IF es = << >> THEN << >> ELSE textContent(es[1]) \o ConcatText(Tail(es))

textContent(e) == e.text \o ConcatText(e.children)

\* element ? element.textContent || undefined : undefined (lines 239-240),
\* for element = trkpt.getElementsByTagName(tag)[0]
OptionalText(trkpt, tag) ==
  LET elements == getElementsByTagName(trkpt, tag)
  IN  IF elements = << >> THEN Undefined
      ELSE IF textContent(elements[1]) = << >> THEN Undefined
      ELSE Some(textContent(elements[1]))

\* The GPXPoint pushed for one trkpt (lines 231-242).
GPXPoint(trkpt) ==
  [lat  |-> parseFloat(AttrOrZero(trkpt.lat)),
   lon  |-> parseFloat(AttrOrZero(trkpt.lon)),
   name |-> OptionalText(trkpt, "name"),
   time |-> OptionalText(trkpt, "time")]

\* The try block after `await file.text()` (lines 218-249): the points, and
\* the message of the Error thrown, if one is.
ReadGpx(xml) ==
  LET trkpts == getElementsByTagName(xml, "trkpt")
      points == [i \in 1..Len(trkpts) |-> GPXPoint(trkpts[i])]
  IN  IF xml.parsererror THEN [thrown |-> Some(ErrGpxParse), points |-> << >>]
      ELSE IF Len(points) = 0 THEN [thrown |-> Some(ErrGpxNoPoints), points |-> points]
      ELSE [thrown |-> Undefined, points |-> points]

\* err.message || 'Error parsing GPX file. Please ensure ...' (line 252)
MessageOf(thrown) == IF thrown[1] # "" THEN thrown[1] ELSE ErrGpxInvalid

\* the message of the error file.text() may reject with
ReadErrors == {Some(""), Some("The requested file could not be read.")}

GpxStep(out, f) == [op |-> "gpx", outcome |-> out, file |-> f, prevPoints |-> gpxPoints]

\* handleGpxUpload up to `await file.text()` (lines 204-217); files is
\* event.target.files, empty when the dialog hands over no file.
handleGpxUpload(files) ==
  /\ UNCHANGED <<images, selectedImageIndex, loading, error,
                 gpxVars, metadataTabVars, mapVars>>
  /\ IF files = << >>
     THEN UNCHANGED <<calls, started, last, gpxTabVars>>
     ELSE /\ started < MaxCalls
          /\ started' = started + 1
          /\ gpxFile' = files[1].name
          /\ gpxLoading' = TRUE
          /\ gpxError' = Null
          /\ gpxPoints' = << >>
          /\ calls' = Suspend([kind |-> "gpx", file |-> files[1]])
          /\ last' = GpxStep("await", files[1])

\* handleGpxUpload from the settling of `await file.text()` to its end
\* (lines 217-255); rejection: the error file.text() rejected with, if any.
handleGpxUploadResume(c, rejection) ==
  LET read == IF rejection # Undefined
              THEN [thrown |-> rejection, points |-> << >>]
              ELSE ReadGpx(c.file.xml)
  IN  /\ c.kind = "gpx"
      /\ calls' = Wake(c)
      /\ gpxLoading' = FALSE
      /\ UNCHANGED <<images, selectedImageIndex, loading, error, started,
                     gpxFile, gpxVars, metadataTabVars, mapVars>>
      /\ IF read.thrown # Undefined
         THEN /\ gpxError' = MessageOf(read.thrown)
              /\ last' = GpxStep(IF rejection # Undefined THEN "unreadable"
                                 ELSE IF c.file.xml.parsererror THEN "parsererror"
                                 ELSE "notrkpt", c.file)
              /\ UNCHANGED gpxPoints
         ELSE /\ gpxPoints' = read.points
              /\ last' = GpxStep("ok", c.file)
              /\ UNCHANGED gpxError

NextGpxUpload ==
  \/ \E files \in {<< >>} \cup {<<f>> : f \in GpxFiles} : handleGpxUpload(files)
  \/ \E c \in BagToSet(calls), rejection \in {Undefined} \cup ReadErrors :
       handleGpxUploadResume(c, rejection)

SpecGpxUpload == Init /\ [][NextGpxUpload]_vars

\* ------------------------------------------------------ the Metadata tab
\* a file exifr finds no metadata in
FileN == File("n.png", Undefined)

\* the files the user can pick in the Metadata tab
MetadataFiles == Files \cup {FileN}

ErrMetaNone == "No metadata found in the uploaded image."
ErrMetaExtract == "Error extracting metadata. Please try again."

AfterParse_ThrowAsNone(md, err, extractedMetadata, rejected) ==
  IF rejected \/ extractedMetadata = Undefined
  THEN [metadata |-> md, metadataError |-> ErrMetaNone]
  ELSE [metadata |-> extractedMetadata, metadataError |-> err]

\* metadata and metadataError after the try / catch of handleMetadataUpload
\* (lines 280-290), from their values before it; extractedMetadata is what
\* exifr.parse(file, true) resolved to, rejected whether it threw instead.
AfterParse(md, err, extractedMetadata, rejected) ==
  IF rejected THEN [metadata |-> md, metadataError |-> ErrMetaExtract]
  ELSE IF extractedMetadata = Undefined
  THEN [metadata |-> md, metadataError |-> ErrMetaNone]
  ELSE [metadata |-> extractedMetadata, metadataError |-> err]

MetadataStep(out, f) == [op |-> "metadata", outcome |-> out, file |-> f]

\* handleMetadataUpload up to `await exifr.parse(file, true)` (lines
\* 268-281).
handleMetadataUpload(files) ==
  /\ UNCHANGED <<images, selectedImageIndex, loading, error,
                 gpxVars, gpxTabVars, mapVars>>
  /\ IF files = << >>
     THEN UNCHANGED <<calls, started, last, metadataTabVars>>
     ELSE /\ started < MaxCalls
          /\ started' = started + 1
          /\ metadataImage' = files[1].name
          /\ metadataLoading' = TRUE
          /\ metadataError' = Null
          /\ metadata' = Undefined
          /\ calls' = Suspend([kind |-> "metadata", file |-> files[1]])
          /\ last' = MetadataStep("await", files[1])

\* handleMetadataUpload from the settling of the await to its end (lines
\* 281-292).
handleMetadataUploadResume(c, rejected) ==
  LET after == AfterParse(metadata, metadataError, c.file.meta, rejected)
  IN  /\ c.kind = "metadata"
      /\ calls' = Wake(c)
      /\ metadata' = after.metadata
      /\ metadataError' = after.metadataError
      /\ metadataLoading' = FALSE
      /\ last' = MetadataStep(IF rejected THEN "throw"
                              ELSE IF c.file.meta = Undefined THEN "nothing"
                              ELSE "value", c.file)
      /\ UNCHANGED <<images, selectedImageIndex, loading, error, started,
                     metadataImage, gpxVars, gpxTabVars, mapVars>>

NextMetadata ==
  \/ \E files \in {<< >>} \cup {<<f>> : f \in MetadataFiles} : handleMetadataUpload(files)
  \/ \E c \in BagToSet(calls), rejected \in BOOLEAN : handleMetadataUploadResume(c, rejected)

SpecMetadata == Init /\ [][NextMetadata]_vars


\* ===================================================== claims, Map tab
Completed(o, out) == last.op = o /\ last.outcome = out

\* The images of the files of a selection that pass the handlers' test, in
\* selection order.
KeptOf(fs) ==
  LET Passes(f) == Keep(f.meta)
      sel == SelectSeq(fs, Passes)
  IN  [i \in 1..Len(sel) |-> ToImage(sel[i])]

\* C1: when handleImageUpload completes with at least one kept file, the
\* image list is exactly the kept files of that upload, in selection order,
\* and selectedImageIndex is 0.
C1_UploadReplaces ==
  Completed("upload", "ok") =>
    /\ images = KeptOf(last.files)
    /\ Len(images) >= 1
    /\ selectedImageIndex = 0

\* An upload of two kept files replaced a two-image list whose second image
\* was selected; an image of the old list is gone.
C1_Witness ==
  /\ Completed("upload", "ok")
  /\ Len(images) = 2
  /\ Len(last.prevImages) = 2
  /\ last.prevSel = 1
  /\ \E i \in 1..Len(last.prevImages) :
       last.prevImages[i].fileName \notin FileNames(images)

\* C2: when handleAddImages completes with at least one new image, the list
\* is the list as it was immediately before the completion followed by the
\* new images, whatever completed between the start and the completion.
C2_AddAppendsToCurrent ==
  Completed("add", "ok") => images = last.prevImages \o last.filtered

\* C3: with a non-empty image list, 0 <= selectedImageIndex < images.length,
\* so the ImageViewer's images[currentIndex] is an image.
C3_IndexInRange ==
  Len(images) > 0 =>
    /\ selectedImageIndex >= 0
    /\ selectedImageIndex < Len(images)
    /\ (selectedImageIndex + 1) \in DOMAIN images

\* An add has put the index on the last position of a three-image list.
C3_Witness ==
  /\ Completed("add", "ok")
  /\ Len(images) = 3
  /\ selectedImageIndex = 2

\* The claim's test: the parsed metadata has a latitude and a longitude,
\* whatever their numeric values.
HasBothCoordinates(f) ==
  /\ f.meta # Undefined
  /\ f.meta[1].latitude # Undefined
  /\ f.meta[1].longitude # Undefined

\* C4: a file is kept exactly when its metadata has both a latitude and a
\* longitude, for any numeric values including 0; kept files keep the
\* selection order.
C4_KeptIffBothCoordinates ==
  (last.op \in {"upload", "add"} /\ last.outcome \in {"ok", "empty"}) =>
    LET sel == SelectSeq(last.files, HasBothCoordinates)
    IN  last.kept = [i \in 1..Len(sel) |-> ToImage(sel[i])]

NoDuplicateNames(imgs) ==
  \A i, j \in 1..Len(imgs) : i # j => imgs[i].fileName # imgs[j].fileName

\* C5: the fileNames of the image list are pairwise distinct after any
\* uploads and adds, and the images an add appends have fileNames that none
\* of the images it keeps has.
C5_NoDuplicateNames ==
  /\ NoDuplicateNames(images)
  /\ Completed("add", "ok") =>
       \A k \in 1..Len(last.filtered) :
         /\ last.filtered[k].fileName \notin FileNames(last.captured)
         /\ images[Len(last.captured) + k] = last.filtered[k]

\* An add whose selection held an already listed fileName and a new one.
C5_Witness ==
  /\ Completed("add", "ok")
  /\ Len(last.filtered) < Len(last.kept)
  /\ Len(last.captured) > 0

\* C6: after a successful handleAddImages the image at selectedImageIndex is
\* the first image of the filtered new batch.
C6_SelectsFirstNew ==
  Completed("add", "ok") =>
    /\ (selectedImageIndex + 1) \in DOMAIN images
    /\ images[selectedImageIndex + 1] = last.filtered[1]

\* An add of two new images to a non-empty list.
C6_Witness ==
  /\ Completed("add", "ok")
  /\ Len(last.filtered) = 2
  /\ Len(last.captured) > 0

\* C7: an upload that keeps no file, or an add with no image left after the
\* duplicate filter, leaves images and selectedImageIndex as they were, sets
\* its error message and ends with loading false.
C7_EmptyLeavesRoute ==
  /\ Completed("upload", "empty") =>
       /\ images = last.prevImages
       /\ selectedImageIndex = last.prevSel
       /\ error = ErrNoGps
       /\ loading = FALSE
  /\ Completed("add", "empty") =>
       /\ images = last.prevImages
       /\ selectedImageIndex = last.prevSel
       /\ error = ErrNoNew
       /\ loading = FALSE

\* An add whose kept files were all duplicates, on a list with a later
\* image selected.
C7_Witness ==
  /\ Completed("add", "empty")
  /\ last.kept # << >>
  /\ Len(images) >= 2
  /\ selectedImageIndex > 0

\* C8: if exifr.parse throws for a file of the batch, the whole batch is
\* dropped: images and selectedImageIndex stay, error is the processing
\* message and loading ends false.
C8_ThrowDiscardsBatch ==
  last.outcome = "throw" =>
    /\ images = last.prevImages
    /\ selectedImageIndex = last.prevSel
    /\ error = ErrProcessing
    /\ loading = FALSE

\* The throw came after a file of the same batch had been kept.
C8_Witness ==
  /\ last.outcome = "throw"
  /\ last.kept # << >>
  /\ images # << >>

\* ========================================================== claims, GPX
\* The comment the claim gives a point: the non-empty values of make and
\* model joined by one space.
ExpectedComment(img) ==
  IF TruthyStr(img.make) /\ TruthyStr(img.model)
  THEN <<img.make[1], " ", img.model[1]>>
  ELSE IF TruthyStr(img.make) THEN <<img.make[1]>> ELSE <<img.model[1]>>

HasDevice(img) == TruthyStr(img.make) \/ TruthyStr(img.model)

\* What the claim says of a document generated from imgs.
TrackOf(doc, imgs) ==
  /\ Len(doc.trkpt) = Len(imgs)
  /\ \A i \in 1..Len(imgs) :
       /\ parseFloat(doc.trkpt[i].lat) = imgs[i].latitude
       /\ parseFloat(doc.trkpt[i].lon) = imgs[i].longitude
       /\ (doc.trkpt[i].time # Undefined) <=> (imgs[i].timestamp # Undefined)
       /\ (doc.trkpt[i].cmt # Undefined) <=> HasDevice(imgs[i])
       /\ HasDevice(imgs[i]) => doc.trkpt[i].cmt = Some(ExpectedComment(imgs[i]))
  /\ doc.metadata.desc = <<"Route generated from ">> \o IntToString(Len(imgs)) \o <<" photos">>

\* C9: generateGPX emits one track point per image, in list order, with the
\* image's latitude and longitude, a time exactly when the image has a
\* timestamp and a comment exactly when it has a make or a model, the
\* comment being the non-empty values joined by one space; the description
\* states the number of images.
C9_TrackPoints ==
  /\ gpxString # Undefined => TrackOf(gpxString[1], gpxImages)
  /\ libString # Undefined => TrackOf(libString[1], gpxImages)

\* C10: parseGPX(generateGPX(images)) is the list of the [latitude,
\* longitude] pairs of the images, same length and order.
C10_RoundTrip ==
  coordinates # Undefined =>
    coordinates[1] = [i \in 1..Len(gpxImages) |->
                        <<gpxImages[i].latitude, gpxImages[i].longitude>>]

\* A parsed export of two images with different coordinates, one of them on
\* the equator and one with a negative fractional latitude.
C10_Witness ==
  /\ coordinates # Undefined
  /\ Len(coordinates[1]) = 2
  /\ coordinates[1][1] = <<0, -340>>
  /\ coordinates[1][2] = <<-5, 7>>

\* The trkpt elements of a file in document order.
TrkptsOf(f) ==
  LET IsTrkpt(e) == e.tag = "trkpt"
  IN  SelectSeq(Preorder(f.xml.children), IsTrkpt)

\* The child elements of e called tag that have text.
NonEmptyChildren(e, tag) ==
  {k \in 1..Len(e.children) :
     e.children[k].tag = tag /\ textContent(e.children[k]) # << >>}

\* A property of GPXPoint is set exactly when the trkpt has a non-empty
\* child element of that name, and then holds the text of such a child.
SetFromChild(value, e, tag) ==
  /\ value # Undefined <=> NonEmptyChildren(e, tag) # {}
  /\ value # Undefined =>
       \E k \in NonEmptyChildren(e, tag) : value[1] = textContent(e.children[k])

\* C11: when handleGpxUpload succeeds, gpxPoints holds one point per trkpt
\* element of the file, in document order, each with the lat and lon of its
\* element, and with name / time set exactly when the trkpt has a non-empty
\* name / time child element.
C11_PointsOfTrkpts ==
  (last.op = "gpx" /\ last.outcome = "ok") =>
    LET trkpts == TrkptsOf(last.file)
    IN  /\ Len(gpxPoints) = Len(trkpts)
        /\ \A i \in 1..Len(trkpts) :
             /\ trkpts[i].lat # << >> => gpxPoints[i].lat = parseFloat(trkpts[i].lat)
             /\ trkpts[i].lon # << >> => gpxPoints[i].lon = parseFloat(trkpts[i].lon)
             /\ SetFromChild(gpxPoints[i].name, trkpts[i], "name")
             /\ SetFromChild(gpxPoints[i].time, trkpts[i], "time")

\* C12: after handleGpxUpload has failed on a file that is not well-formed
\* XML, gpxError is 'Error parsing GPX file.'; after it has failed on a
\* well-formed file without trkpt elements, gpxError is 'No track points
\* found in GPX file.'; in both cases gpxPoints is empty and gpxLoading is
\* false.
C12_FailureReported ==
  /\ (last.op = "gpx" /\ last.outcome = "parsererror") => gpxError = ErrGpxParse
  /\ (last.op = "gpx" /\ last.outcome = "notrkpt") => gpxError = ErrGpxNoPoints
  /\ (last.op = "gpx" /\ last.outcome \in {"parsererror", "notrkpt"}) =>
       gpxPoints = << >> /\ gpxLoading = FALSE

\* The terms calculateDistance is claimed to add: one per pair of
\* consecutive images, in list order.
Legs(imgs) ==
  [k \in 1..(Len(imgs) - 1) |->
     getDistanceFromLatLonInKm(imgs[k].latitude, imgs[k].longitude,
                               imgs[k + 1].latitude, imgs[k + 1].longitude)]

\* C13: calculateDistance returns the sum of the distances between
\* consecutive images in list order, n - 1 terms for n >= 1 images, and 0
\* (no term) for a list of zero or one image.
C13_SumOfLegs ==
  LET n == Len(images)
      total == calculateDistance(images)
  IN  /\ total = Legs(images)
      /\ n >= 1 => Len(total) = n - 1
      /\ n <= 1 => total = << >>

\* a route of three images: two terms
C13_Witness ==
  /\ Len(images) = 3
  /\ calculateDistance(images) =
       <<getDistanceFromLatLonInKm(images[1].latitude, images[1].longitude,
                                   images[2].latitude, images[2].longitude),
         getDistanceFromLatLonInKm(images[2].latitude, images[2].longitude,
                                   images[3].latitude, images[3].longitude)>>

\* The indices the Map samples in the current state.
SampledSet ==
  LET sampled == sampledWaypointIndices(images, selectedImageIndex, zoomLevel)
  IN  {sampled[k] : k \in 1..Len(sampled)}

\* C15: the sampled indices are exactly the i in 0..n-1 with i = 0,
\* i = n-1, i mod sampleRate = 0 or i = selectedIndex; the first, the last
\* and the selected image are sampled and no index outside 0..n-1 is.
C15_SampledIndices ==
  LET n == Len(images)
      sampleRate == calculateSampleRate(zoomLevel)
  IN  /\ SampledSet = {i \in 0..(n - 1) :
                         i = 0 \/ i = n - 1 \/ i % sampleRate = 0
                           \/ i = selectedImageIndex}
      /\ {0, n - 1, selectedImageIndex} \subseteq SampledSet
      /\ SampledSet \subseteq 0..(n - 1)

\* a selected image that only the selectedIndex clause samples
C15_Witness ==
  /\ zoomLevel = 17
  /\ Len(images) = 14
  /\ selectedImageIndex = 3
  /\ SampledSet = {0, 3, 6, 12, 13}

RateTable(zoom) ==
  CASE zoom >= 18 -> 1
    [] zoom = 17 -> 6
    [] zoom = 16 -> 12
    [] zoom = 15 -> 18
    [] zoom = 14 -> 24
    [] zoom = 13 -> 30
    [] zoom < 13 -> 40

\* C16: calculateSampleRate is 1 for zoom >= 18, 6 at 17, 12 at 16, 18 at
\* 15, 24 at 14, 30 at 13 and 40 below 13; it does not increase with the
\* zoom; at zoom >= 18 every image index is sampled.
C16_SampleRate ==
  /\ calculateSampleRate(zoomLevel) = RateTable(zoomLevel)
  /\ \A zoom \in Zooms :
       zoomLevel <= zoom => calculateSampleRate(zoom) <= calculateSampleRate(zoomLevel)
  /\ zoomLevel >= 18 => SampledSet = 0..(Len(images) - 1)

C16_Witness ==
  /\ zoomLevel = 18
  /\ Len(images) = 8
  /\ selectedImageIndex = 0
  /\ SampledSet = 0..7

\* C17: of the sampled indices, the first, the last and the selected image
\* are rendered whatever the bounds are; any other sampled index is
\* rendered exactly when the bounds are not yet known or contain its
\* coordinate.
C17_ViewportFilter ==
  LET n == Len(images)
      always == {0, n - 1, selectedImageIndex}
      InView(i) == bounds = Undefined
                     \/ contains(bounds[1], <<images[i + 1].latitude,
                                             images[i + 1].longitude>>)
  IN  /\ Rendered \subseteq SampledSet
      /\ \A i \in SampledSet \cap always : i \in Rendered
      /\ \A i \in SampledSet \ always : i \in Rendered <=> InView(i)

\* the selected image is out of view and rendered, an unselected interior
\* image is out of view and not rendered, another is in view and rendered
C17_Witness ==
  /\ bounds = Some(LatLngBounds(400, 10, 405, 20))
  /\ zoomLevel = 18
  /\ Len(images) = 14
  /\ selectedImageIndex = 7
  /\ 7 \in Rendered
  /\ 8 \notin Rendered
  /\ 3 \in Rendered

\* C18: Next at the last image and Previous at the first image leave
\* selectedImageIndex as it was; otherwise Next adds exactly 1 and Previous
\* subtracts exactly 1; neither changes the image list.
C18_NextPreviousClamp ==
  /\ last.op = "next" =>
       /\ images = last.prevImages
       /\ selectedImageIndex =
            IF last.prevSel = Len(images) - 1 THEN last.prevSel
            ELSE last.prevSel + 1
  /\ last.op = "previous" =>
       /\ images = last.prevImages
       /\ selectedImageIndex =
            IF last.prevSel = 0 THEN last.prevSel ELSE last.prevSel - 1

\* Next from the first of three images
C18_Witness ==
  /\ last.op = "next"
  /\ Len(images) = 3
  /\ last.prevSel = 0
  /\ selectedImageIndex = 1

\* C19: handleMetadataUpload clears metadata and metadataError when it
\* starts; when it completes it has set metadata if the parser returned a
\* value, metadataError 'No metadata found in the uploaded image.' if the
\* parser returned nothing, and metadataError 'Error extracting metadata.
\* Please try again.' if the parser threw; metadataLoading is then false.
C19_MetadataUpload ==
  /\ (last.op = "metadata" /\ last.outcome = "await") =>
       metadata = Undefined /\ metadataError = Null
  /\ (last.op = "metadata" /\ last.outcome = "value") =>
       metadata = last.file.meta /\ metadataLoading = FALSE
  /\ (last.op = "metadata" /\ last.outcome = "nothing") =>
       metadataError = ErrMetaNone /\ metadataLoading = FALSE
  /\ (last.op = "metadata" /\ last.outcome = "throw") =>
       metadataError = ErrMetaExtract /\ metadataLoading = FALSE

\* the parser threw on the second of two uploads, after the first had set
\* metadata
C19_Witness ==
  /\ last.op = "metadata"
  /\ last.outcome = "throw"
  /\ started = 2
  /\ calls = EmptyBag
  /\ metadata # Undefined
  /\ metadataError = ErrMetaExtract

====
